---- MODULE Spec2Model ----
(***************************************************************************)
(* HelpDesk Mini backend (Express + Mongoose): the ticket routes, the      *)
(* idempotency ledger and the per-identity rate limiter, as state          *)
(* machines.  Every await of a handler is a step boundary: between two     *)
(* steps of one request the steps of other requests may run.               *)
(*                                                                         *)
(* Time is in milliseconds since the server process booted; a Date is the  *)
(* boot instant (BootEpochSec seconds after the epoch) plus that offset.   *)
(***************************************************************************)
EXTENDS Integers, Sequences, FiniteSets, TLC

\* ---------------------------------------------------------------- bounds
MaxTickets == 3
MaxVersion == 3
MaxPatchTicks == 1
MaxHourTicks == 1
MaxRateTicks == 4
MaxRateTickets == 1
MaxHits == 62
BootEpochSec == 1700000000

\* ------------------------------------------------------ program constants
windowMs == 60 * 1000
max == 60
expires == 3600
SlaMs == 24 * 60 * 60 * 1000

PatchStepMs == 1000
HourStepMs == 3600 * 1000
RateStepMs == 30 * 1000

\* ------------------------------------------------------------ identities
Users == {"john_user", "jane_agent", "admin_user"}

Role(u) ==
  CASE u = "john_user" -> "user"
    [] u = "jane_agent" -> "agent"
    [] u = "admin_user" -> "admin"

\* Two client connections, each with at most one request in flight.
Procs == {"c1", "c2"}

\* JavaScript's undefined and null for string-valued body fields.
Undefined == "undefined"
Null == "null"

\* A numeric body field is a set: {} when the field is absent, {v} when it is v.
Supplied(x) == x # {}
ValueOf(x) == CHOOSE v \in x : TRUE

VARIABLES tickets, idem, hits, now, pc, req, loc, resp, patchOk, created,
          comments, body, users, registered, client

vars == <<tickets, idem, hits, now, pc, req, loc, resp, patchOk, created,
          comments, body, users, registered, client>>

\* ------------------------------------------------------------- documents
NoTicket ==
  [id |-> 0, title |-> "", description |-> "", status |-> "", priority |-> "",
   assigned_to |-> Null, created_by |-> "", version |-> 0,
   created_at |-> 0, updated_at |-> 0, due_at |-> 0]

\* The Authorization header after split(' '): the first part and the second,
\* a set that is empty when there is no second part.
NoHeader == [scheme |-> "", token |-> {}]

NoReq ==
  [op |-> "none", user |-> "", ticket |-> 0, title |-> "", description |-> "",
   priority |-> Undefined, status |-> Undefined, assigned_to |-> Undefined,
   version |-> {}, key |-> "", auth |-> NoHeader, ip |-> "", email |-> "",
   password |-> "", limit |-> Undefined, offset |-> Undefined, q |-> Undefined,
   text |-> "", parent_id |-> 0, username |-> "", role |-> Undefined]

NoLoc == [version |-> 0, updated_at |-> 0, created_at |-> 0, doc |-> NoTicket]

NoResp ==
  [status |-> 0, code |-> "", ticket |-> NoTicket, current_version |-> 0,
   retry_after |-> 0, field |-> ""]

Respond(status, code) == [NoResp EXCEPT !.status = status, !.code = code]

\* The JSON body of a read.  GET /tickets/:id fills ticket (a set: {} until a
\* ticket is sent) and comments; GET /tickets fills items, next_offset ({} is
\* null) and total_returned.
NoBody ==
  [ticket |-> {}, comments |-> << >>, items |-> << >>, next_offset |-> {},
   total_returned |-> 0]

TicketIds == 1..Len(tickets)

\* Ticket.findById
findById(id) == IF id \in TicketIds THEN tickets[id] ELSE NoTicket

\* ticketSchema defaults and the pre('save') hook of a new document: created_at
\* is the default taken when the document is constructed, due_at and updated_at
\* are set by the hook when it is saved.
NewTicket(id, title, description, priority, user, constructedAt, savedAt) ==
  [id |-> id, title |-> title, description |-> description, status |-> "open",
   priority |-> priority, assigned_to |-> Null, created_by |-> user,
   version |-> 1, created_at |-> constructedAt, updated_at |-> savedAt,
   due_at |-> savedAt + SlaMs]

\* ------------------------------------------------------------ middleware
\* authenticateToken with a valid token of user u: req.user is u's identity.
authenticateToken(u) == u \in Users

\* requireRole that only asks for an authenticated user.
requireRoleAny(roles, u) == u \in Users

\* requireRole(...roles)
requireRole(roles, u) == Role(u) \in roles

\* ------------------------------------------------- PATCH /api/tickets/:id
PatchReq(u, t, b, v) ==
  [NoReq EXCEPT !.op = "patch", !.user = u, !.ticket = t, !.status = b.status,
                !.priority = b.priority, !.assigned_to = b.assigned_to,
                !.version = v]

\* The bodies the clients send: subsets of status, priority, assigned_to.
PatchBodies ==
  { [status |-> "in_progress", priority |-> Undefined, assigned_to |-> Undefined],
    [status |-> "resolved", priority |-> "high", assigned_to |-> "jane_agent"] }

\* The version field of the body: absent, or a number.
PatchVersions == {{}} \cup {{v} : v \in 1..MaxVersion}

\* Who is logged in on which connection.
PatchUsers(p) == IF p = "c1" THEN {"jane_agent", "john_user"} ELSE {"admin_user"}

\* The PATCH requests connection p sends: agents and admins patch ticket 1 with
\* any body and version; on c1 a plain user tries, on the ticket he created
\* and on a ticket id that does not exist, and an agent names such an id.
PatchInputs(p) ==
  { PatchReq(u, 1, b, v) :
      u \in PatchUsers(p) \ {"john_user"}, b \in PatchBodies, v \in PatchVersions }
  \cup { PatchReq(u, 1, CHOOSE b \in PatchBodies : b.priority = Undefined, {1}) :
           u \in PatchUsers(p) \cap {"john_user"} }
  \cup { PatchReq(u, MaxTickets, CHOOSE b \in PatchBodies : b.priority # Undefined, {}) :
           u \in PatchUsers(p) \cap {"john_user"} }
  \cup { PatchReq(u, MaxTickets, CHOOSE b \in PatchBodies : b.priority = Undefined, {1}) :
           u \in PatchUsers(p) \cap {"jane_agent"} }

\* A version check that never finds the versions equal (a version that
\* arrives as a string is never === the stored number).
VersionConflictStrict(ticket, version) == Supplied(version)

\* Optimistic locking - check version (the condition of the 409 branch).
VersionConflict(ticket, version) ==
  Supplied(version) /\ ticket.version # ValueOf(version)

\* ConflictResponse with the version one past the stored one in the body.
ConflictResponseOffByOne(ticket) ==
  [Respond(409, "VERSION_CONFLICT") EXCEPT !.current_version = ticket.version + 1]

\* The 409 body.
ConflictResponse(ticket) ==
  [Respond(409, "VERSION_CONFLICT") EXCEPT !.current_version = ticket.version]

\* if (x): undefined, null and the empty string are falsy.
Truthy(x) == x \notin {Undefined, Null, ""}

\* An updates object that always carries assigned_to, null when the body has
\* none.
ApplyUpdatesUnassign(ticket, r, l) ==
  [ticket EXCEPT
     !.status = IF Truthy(r.status) THEN r.status ELSE @,
     !.assigned_to = IF Truthy(r.assigned_to) THEN r.assigned_to ELSE Null,
     !.priority = IF Truthy(r.priority) THEN r.priority ELSE @,
     !.version = l.version + 1,
     !.updated_at = l.updated_at]

\* The updates object handed to findByIdAndUpdate: status and priority when
\* truthy, assigned_to when not undefined, version and updated_at always.
ApplyUpdates(ticket, r, l) ==
  [ticket EXCEPT
     !.status = IF Truthy(r.status) THEN r.status ELSE @,
     !.assigned_to = IF r.assigned_to # Undefined THEN r.assigned_to ELSE @,
     !.priority = IF Truthy(r.priority) THEN r.priority ELSE @,
     !.version = l.version + 1,
     !.updated_at = l.updated_at]

\* ticketSchema: the enums of status and priority.
StatusEnum == {"open", "in_progress", "resolved", "closed"}
PriorityEnum == {"low", "medium", "high", "urgent"}

\* Validators that accept every value.
ValidTicketAny(ticket) == TRUE

\* The enum validators, run by save() and, with runValidators: true, by
\* findByIdAndUpdate on the fields it sets.
ValidTicket(ticket) ==
  ticket.status \in StatusEnum /\ ticket.priority \in PriorityEnum

\* First step for the request r: authenticateToken,
\* requireRole('agent','admin'), Ticket.findById, the version check, and the
\* updates object.
patchRequest(p, r) ==
  /\ pc[p] \in {"idle", "done"}
  /\ LET u == r.user
         v == r.version
         ticket == findById(r.ticket)
     IN /\ authenticateToken(u)
        /\ req' = [req EXCEPT ![p] = r]
        /\ IF ~requireRole({"agent", "admin"}, u)
           THEN /\ resp' = [resp EXCEPT ![p] = Respond(403, "INSUFFICIENT_PERMISSIONS")]
                /\ pc' = [pc EXCEPT ![p] = "done"]
                /\ loc' = [loc EXCEPT ![p] = NoLoc]
           ELSE IF ticket = NoTicket
           THEN /\ resp' = [resp EXCEPT ![p] = Respond(404, "TICKET_NOT_FOUND")]
                /\ pc' = [pc EXCEPT ![p] = "done"]
                /\ loc' = [loc EXCEPT ![p] = NoLoc]
           ELSE IF VersionConflict(ticket, v)
           THEN /\ resp' = [resp EXCEPT ![p] = ConflictResponse(ticket)]
                /\ pc' = [pc EXCEPT ![p] = "done"]
                /\ loc' = [loc EXCEPT ![p] = NoLoc]
           ELSE /\ ticket.version < MaxVersion
                /\ resp' = [resp EXCEPT ![p] = NoResp]
                /\ pc' = [pc EXCEPT ![p] = "patch_update"]
                /\ loc' = [loc EXCEPT ![p] =
                             [NoLoc EXCEPT !.version = ticket.version,
                                           !.updated_at = now]]
  /\ UNCHANGED <<tickets, idem, hits, now, patchOk, created, comments, body, users, registered, client>>

\* First step of the handler, for the requests of connection p.
patchFind(p) == \E r \in PatchInputs(p) : patchRequest(p, r)

\* Second step: Ticket.findByIdAndUpdate(ticketId, updates, {new: true,
\* runValidators: true}) and the 200 response carrying the updated document,
\* or the 400 of a ValidationError.
patchUpdate(p) ==
  /\ pc[p] = "patch_update"
  /\ LET t == req[p].ticket
         updated == ApplyUpdates(tickets[t], req[p], loc[p])
     IN IF ~ValidTicket(updated)
        THEN /\ resp' = [resp EXCEPT ![p] = Respond(400, "VALIDATION_ERROR")]
             /\ UNCHANGED <<tickets, patchOk>>
        ELSE /\ tickets' = [tickets EXCEPT ![t] = updated]
             /\ resp' = [resp EXCEPT ![p] = [Respond(200, "") EXCEPT !.ticket = updated]]
             /\ patchOk' = [patchOk EXCEPT ![t] = @ + 1]
  /\ pc' = [pc EXCEPT ![p] = "done"]
  /\ UNCHANGED <<idem, hits, now, req, loc, created, comments, body, users, registered, client>>

\* The wall clock, as the update path sees it.
TickPatch ==
  /\ now < MaxPatchTicks * PatchStepMs
  /\ now' = now + PatchStepMs
  /\ UNCHANGED <<tickets, idem, hits, pc, req, loc, resp, patchOk, created, comments, body, users, registered, client>>

IdleProcs ==
  /\ pc = [p \in Procs |-> "idle"]
  /\ req = [p \in Procs |-> NoReq]
  /\ loc = [p \in Procs |-> NoLoc]
  /\ resp = [p \in Procs |-> NoResp]

EmptyLimiter == hits = [u \in Users |-> [totalHits |-> 0, resetTime |-> 0]]

\* What a client remembers between its requests: the version of the ticket
\* it last read, how often a conflict made it read again, and the list it
\* has loaded so far with the offset of the next page ({} when there is none).
NoClient == [version |-> 0, refreshes |-> 0, items |-> << >>, next_offset |-> {0}]

\* No comment stored, nothing read yet, the seeded identities and nobody
\* registered, and clients that have loaded nothing.
SeededUsers ==
  /\ comments = << >>
  /\ body = NoBody
  /\ users = Users
  /\ registered = << >>
  /\ client = [p \in Procs |-> NoClient]

\* One ticket, as POST /api/tickets leaves it, and nothing in flight.
InitPatch ==
  /\ tickets = << NewTicket(1, "t1", "d1", "medium", "john_user", 0, 0) >>
  /\ idem = {}
  /\ EmptyLimiter
  /\ now = 0
  /\ IdleProcs
  /\ patchOk = [t \in 1..MaxTickets |-> 0]
  /\ created = {}
  /\ SeededUsers

NextPatch ==
  \/ \E p \in Procs : patchFind(p)
  \/ \E p \in Procs : patchUpdate(p)
  \/ TickPatch

SpecPatch == InitPatch /\ [][NextPatch]_vars

\* --------------------------------------------- PATCH bodies, field by field
\* Bodies with one or two of the three fields: a status with an assignee, a
\* priority, assigned_to: null, and an empty status.
FrameBodies ==
  { [status |-> "resolved", priority |-> Undefined, assigned_to |-> "jane_agent"],
    [status |-> Undefined, priority |-> "urgent", assigned_to |-> Undefined],
    [status |-> Undefined, priority |-> Undefined, assigned_to |-> Null],
    [status |-> "", priority |-> Undefined, assigned_to |-> Undefined] }

\* jane_agent (c1) sends every body, without a version and with version 1;
\* admin_user (c2) sends the priority and the unassignment without a version.
FrameInputs(p) ==
  IF p = "c1"
  THEN { PatchReq("jane_agent", 1, b, v) : b \in FrameBodies, v \in {{}, {1}} }
  ELSE { PatchReq("admin_user", 1, b, {}) :
           b \in { c \in FrameBodies : c.status = Undefined } }

NextFrame ==
  \/ \E p \in Procs : \E r \in FrameInputs(p) : patchRequest(p, r)
  \/ \E p \in Procs : patchUpdate(p)
  \/ TickPatch

SpecFrame == InitPatch /\ [][NextFrame]_vars

\* ------------------------------------------------------ POST /api/tickets
CreateReq(u, b, k) ==
  [NoReq EXCEPT !.op = "create", !.user = u, !.title = b.title,
                !.description = b.description, !.priority = b.priority,
                !.key = k]

\* The bodies the clients send; "" is a missing (falsy) field.
BodyA == [title |-> "t1", description |-> "d1", priority |-> Undefined]
BodyB == [title |-> "t2", description |-> "d2", priority |-> "high"]
NoTitle == [title |-> "", description |-> "d1", priority |-> Undefined]
BadPriority == [title |-> "t1", description |-> "d1", priority |-> "bogus"]

\* The POST requests connection p sends, all with the Idempotency-Key header
\* "k1" ("" stands for no header).  Both connections can be logged in as
\* john_user.
CreateInputs(p) ==
  IF p = "c1"
  THEN { CreateReq("john_user", b, "k1") : b \in {BodyA, BodyB, NoTitle} }
  ELSE { CreateReq(u, BodyA, "k1") : u \in {"john_user", "jane_agent"} }

\* The validation block at the head of the handler: the 400 code, or "".
Validation(r) ==
  IF r.title = "" THEN "title"
  ELSE IF r.description = "" THEN "description"
  ELSE ""

\* A findOne that never finds a record.
findOneMiss(k, u) == {}

\* IdempotencyKey.findOne({key, user_id}): the matching records.
findOne(k, u) == { r \in idem : r.key = k /\ r.user_id = u }

\* idempotencySchema: key is unique: true, an index on key alone.  A save
\* of a second record with the same key fails, whoever owns the first.
DuplicateKey(k, u) == \E r \in idem : r.key = k

\* A replay answered with the ticket as it is in the store now.
CachedResponseFresh(existingKey) == findById(existingKey.response.id)

\* Return the cached response: existingKey.response.
CachedResponse(existingKey) == existingKey.response

\* First step for the request r: validation, the ledger lookup, and
\* new Ticket({...}).
postRequest(p, r) ==
  /\ pc[p] \in {"idle", "done"}
  /\ authenticateToken(r.user)
  /\ req' = [req EXCEPT ![p] = r]
  /\ IF Validation(r) # ""
     THEN /\ resp' = [resp EXCEPT ![p] = Respond(400, "FIELD_REQUIRED")]
          /\ pc' = [pc EXCEPT ![p] = "done"]
          /\ loc' = [loc EXCEPT ![p] = NoLoc]
     ELSE IF r.key # "" /\ findOne(r.key, r.user) # {}
     THEN /\ resp' = [resp EXCEPT ![p] =
               [Respond(201, "") EXCEPT
                  !.ticket = CachedResponse(CHOOSE e \in findOne(r.key, r.user) : TRUE)]]
          /\ pc' = [pc EXCEPT ![p] = "done"]
          /\ loc' = [loc EXCEPT ![p] = NoLoc]
     ELSE /\ Len(tickets) + Cardinality({q \in Procs : pc[q] = "post_save"})
               < MaxTickets
          /\ resp' = [resp EXCEPT ![p] = NoResp]
          /\ pc' = [pc EXCEPT ![p] = "post_save"]
          /\ loc' = [loc EXCEPT ![p] = [NoLoc EXCEPT !.created_at = now]]
  /\ UNCHANGED <<tickets, idem, hits, now, patchOk, created, comments, body, users, registered, client>>

\* First step of the handler, for the requests of connection p.
postBegin(p) == \E r \in CreateInputs(p) : postRequest(p, r)

\* Second step: ticket.save() with its validators and its pre('save') hook;
\* without a key the 201 follows at once.
postSave(p) ==
  /\ pc[p] = "post_save"
  /\ LET r == req[p]
         doc == NewTicket(Len(tickets) + 1, r.title, r.description,
                          IF Truthy(r.priority) THEN r.priority ELSE "medium",
                          r.user, loc[p].created_at, now)
     IN IF ~ValidTicket(doc)
        THEN /\ resp' = [resp EXCEPT ![p] = Respond(400, "VALIDATION_ERROR")]
             /\ pc' = [pc EXCEPT ![p] = "done"]
             /\ UNCHANGED <<tickets, loc>>
        ELSE /\ tickets' = Append(tickets, doc)
             /\ loc' = [loc EXCEPT ![p].doc = doc]
             /\ IF r.key # ""
                THEN /\ pc' = [pc EXCEPT ![p] = "post_record"]
                     /\ resp' = resp
                ELSE /\ pc' = [pc EXCEPT ![p] = "done"]
                     /\ resp' = [resp EXCEPT ![p] = [Respond(201, "") EXCEPT !.ticket = doc]]
  /\ UNCHANGED <<idem, hits, now, req, patchOk, created, comments, body, users, registered, client>>

\* Third step: idempotencyRecord.save() and the 201; a duplicate-key error of
\* the save lands in the catch block, which answers 500.
postRecord(p) ==
  /\ pc[p] = "post_record"
  /\ LET r == req[p]
         doc == loc[p].doc
     IN IF DuplicateKey(r.key, r.user)
        THEN /\ resp' = [resp EXCEPT ![p] = Respond(500, "INTERNAL_ERROR")]
             /\ UNCHANGED <<idem, created>>
        ELSE /\ idem' = idem \cup
                  {[key |-> r.key, user_id |-> r.user, response |-> doc,
                    created_at |-> now]}
             /\ resp' = [resp EXCEPT ![p] = [Respond(201, "") EXCEPT !.ticket = doc]]
             /\ created' = created \cup
                  {[key |-> r.key, user_id |-> r.user, ticket |-> doc, at |-> now]}
  /\ pc' = [pc EXCEPT ![p] = "done"]
  /\ UNCHANGED <<tickets, hits, now, req, loc, patchOk, comments, body, users, registered, client>>

\* created_at: expires: 3600.  The TTL index lets the database delete a
\* record once it is an hour old; the deletion is a background task.
Expired(r) == now >= r.created_at + expires * 1000

expireRecord ==
  /\ \E r \in idem : Expired(r) /\ idem' = idem \ {r}
  /\ UNCHANGED <<tickets, hits, now, pc, req, loc, resp, patchOk, created, comments, body, users, registered, client>>

TickHour ==
  /\ now < MaxHourTicks * HourStepMs
  /\ now' = now + HourStepMs
  /\ UNCHANGED <<tickets, idem, hits, pc, req, loc, resp, patchOk, created, comments, body, users, registered, client>>

\* An empty database and nothing in flight.
InitCreate ==
  /\ tickets = << >>
  /\ idem = {}
  /\ EmptyLimiter
  /\ now = 0
  /\ IdleProcs
  /\ patchOk = [t \in 1..MaxTickets |-> 0]
  /\ created = {}
  /\ SeededUsers

NextCreate ==
  \/ \E p \in Procs : postBegin(p)
  \/ \E p \in Procs : postSave(p)
  \/ \E p \in Procs : postRecord(p)
  \/ expireRecord
  \/ TickHour

SpecCreate == InitCreate /\ [][NextCreate]_vars

\* ------------------------------------------- status and priority values
StatusBody(s) == [status |-> s, priority |-> Undefined, assigned_to |-> Undefined]

\* jane_agent (c1) sets each status, and a status and a priority outside the
\* enums, with every version; admin_user (c2) closes the ticket.
StatusPatches(p) ==
  IF p = "c1"
  THEN { PatchReq("jane_agent", 1, StatusBody(s), v) :
           s \in StatusEnum \cup {"invalid-status"}, v \in PatchVersions \ {{}} }
       \cup { PatchReq("jane_agent", 1, [StatusBody("open") EXCEPT !.priority = "bogus"], {}) }
  ELSE { PatchReq("admin_user", 1, StatusBody("closed"), v) : v \in {{1}, {2}} }

\* john_user (c2) creates without a key, with a priority of the enum and with
\* one outside it.
StatusCreates == { CreateReq("john_user", b, "") : b \in {BodyB, BadPriority} }

NextStatus ==
  \/ \E p \in Procs : \E r \in StatusPatches(p) : patchRequest(p, r)
  \/ \E p \in Procs : patchUpdate(p)
  \/ \E r \in StatusCreates : postRequest("c2", r)
  \/ postSave("c2")

SpecStatus == InitPatch /\ [][NextStatus]_vars

\* ------------------------------------- the ledger beside the update path
\* john_user (c1) creates with the key k1, with two bodies, with a body that
\* fails the handler's validation and with one that fails the schema's.
LedgerCreates ==
  { CreateReq("john_user", b, "k1") : b \in {BodyA, BodyB, NoTitle, BadPriority} }

\* jane_agent (c2) patches the first ticket, with and without a version.
LedgerPatches ==
  { PatchReq("jane_agent", 1,
             [status |-> "in_progress", priority |-> Undefined, assigned_to |-> Undefined],
             v) : v \in {{}, {1}} }

NextLedger ==
  \/ \E r \in LedgerCreates : postRequest("c1", r)
  \/ postSave("c1")
  \/ postRecord("c1")
  \/ \E r \in LedgerPatches : patchRequest("c2", r)
  \/ patchUpdate("c2")
  \/ expireRecord
  \/ TickHour

SpecLedger == InitCreate /\ [][NextLedger]_vars

\* ------------------------------------------------------------ rate limiter
CeilDiv(a, b) == (a + b - 1) \div b

\* keyGenerator: behind the authentication gate of server.js req.user is set,
\* and the key is the user's id.
keyGenerator(u) == u

\* The memory store of express-rate-limit: a key's window is over (or was
\* never opened) once its resetTime has passed.
WindowOver(entry) == entry.resetTime <= now

\* The store's increment for a key: a new window of windowMs starts with the
\* first hit, later hits of the window are counted.
Increment(entry) ==
  IF WindowOver(entry)
  THEN [totalHits |-> 1, resetTime |-> now + windowMs]
  ELSE [totalHits |-> entry.totalHits + 1, resetTime |-> entry.resetTime]

\* OverLimit with the limit one request too high.
OverLimitOffByOne(entry) == entry.totalHits > max + 1

\* max: 60 - the request is refused when the window's count exceeds max.
OverLimit(entry) == entry.totalHits > max

\* handler: retry_after is Math.ceil(req.rateLimit.resetTime / 1000), and
\* resetTime is a Date: its value is the milliseconds from the epoch to the
\* reset, (BootEpochSec * 1000 + resetTime) here.
RetryAfter(entry) == BootEpochSec + CeilDiv(entry.resetTime, 1000)

RateLimitResponse(entry) ==
  [Respond(429, "RATE_LIMIT") EXCEPT !.retry_after = RetryAfter(entry)]

\* The identity whose requests are counted.
RateUsers == {"john_user"}

\* app.use('/api', rateLimiter) for a request of user u: the store counts
\* the hit whatever the verdict.
rateLimiter(u) ==
  /\ WindowOver(hits[keyGenerator(u)]) \/ hits[keyGenerator(u)].totalHits < MaxHits
  /\ hits' = [hits EXCEPT ![keyGenerator(u)] = Increment(@)]

Refused(p, u) ==
  /\ resp' = [resp EXCEPT ![p] = RateLimitResponse(Increment(hits[keyGenerator(u)]))]
  /\ pc' = [pc EXCEPT ![p] = "done"]
  /\ UNCHANGED <<tickets, idem, now, loc, patchOk, created, comments, body, users, registered, client>>

\* POST /api/tickets without Idempotency-Key through the middleware chain of
\* server.js: authentication gate, rate limiter, route handler.
apiCreate(p) ==
  /\ pc[p] \in {"idle", "done"}
  /\ \E u \in RateUsers :
       LET r == CreateReq(u, BodyA, "")
           doc == NewTicket(Len(tickets) + 1, r.title, r.description, "medium",
                            u, now, now)
       IN /\ authenticateToken(u)
          /\ req' = [req EXCEPT ![p] = r]
          /\ rateLimiter(u)
          /\ IF OverLimit(Increment(hits[keyGenerator(u)]))
             THEN Refused(p, u)
             ELSE /\ Len(tickets) < MaxRateTickets
                  /\ tickets' = Append(tickets, doc)
                  /\ resp' = [resp EXCEPT ![p] = [Respond(201, "") EXCEPT !.ticket = doc]]
                  /\ pc' = [pc EXCEPT ![p] = "done"]
                  /\ UNCHANGED <<idem, now, loc, patchOk, created, comments, body, users, registered, client>>

GetReq(u, t) == [NoReq EXCEPT !.op = "get", !.user = u, !.ticket = t]

\* GET /api/tickets/:id through the same chain.
apiGet(p) ==
  /\ pc[p] \in {"idle", "done"}
  /\ \E u \in RateUsers :
       LET r == GetReq(u, 1)
           ticket == findById(1)
       IN /\ authenticateToken(u)
          /\ req' = [req EXCEPT ![p] = r]
          /\ rateLimiter(u)
          /\ IF OverLimit(Increment(hits[keyGenerator(u)]))
             THEN Refused(p, u)
             ELSE /\ resp' = [resp EXCEPT ![p] =
                       IF ticket = NoTicket THEN Respond(404, "TICKET_NOT_FOUND")
                       ELSE IF Role(u) = "user" /\ ticket.created_by # u
                       THEN Respond(403, "INSUFFICIENT_PERMISSIONS")
                       ELSE [Respond(200, "") EXCEPT !.ticket = ticket]]
                  /\ pc' = [pc EXCEPT ![p] = "done"]
                  /\ UNCHANGED <<tickets, idem, now, loc, patchOk, created, comments, body, users, registered, client>>

TickRate ==
  /\ now < MaxRateTicks * RateStepMs
  /\ now' = now + RateStepMs
  /\ UNCHANGED <<tickets, idem, hits, pc, req, loc, resp, patchOk, created, comments, body, users, registered, client>>

InitRate == InitCreate

NextRate ==
  \/ apiCreate("c1")
  \/ apiGet("c1")
  \/ TickRate

SpecRate == InitRate /\ [][NextRate]_vars

\* ------------------------------------------- the /api middleware chain
MaxLogins == 2
TokenLifeMs == 7 * 24 * 60 * 60 * 1000

\* The identities /api/seed-production creates: the same accounts under new
\* ids.
Reseeded == {"john_user.2", "jane_agent.2", "admin_user.2"}

Email(u) ==
  CASE u \in {"john_user", "john_user.2"} -> "john@example.com"
    [] u \in {"jane_agent", "jane_agent.2"} -> "jane@example.com"
    [] u \in {"admin_user", "admin_user.2"} -> "admin@mail.com"

Password(u) == IF u \in {"admin_user", "admin_user.2"} THEN "admin123" ELSE "password123"

\* generateToken: jwt.sign({userId}, JWT_SECRET, {expiresIn: '7d'}) at time at.
generateToken(userId, at) ==
  [userId |-> userId, signed |-> TRUE, exp |-> at + TokenLifeMs]

\* A token that was not signed with JWT_SECRET.
Forged(userId) == [generateToken(userId, 0) EXCEPT !.signed = FALSE]

Header(scheme, token) == [scheme |-> scheme, token |-> {token}]

\* jwt.verify: the signature and the expiry.
verify(token) == token.signed /\ now < token.exp

\* authenticateToken on a header: the 401 code, or "" when it sets req.user.
authenticateHeader(header) ==
  IF header.token = {} THEN "TOKEN_REQUIRED"
  ELSE IF ~verify(ValueOf(header.token)) THEN "INVALID_TOKEN"
  ELSE IF ValueOf(header.token).userId \notin users THEN "INVALID_TOKEN"
  ELSE ""

\* The path of a request below /api, and the paths the gate lets through
\* without authentication.
Path(r) ==
  CASE r.op = "login" -> "/login"
    [] r.op = "create" -> "/tickets"
    [] r.op = "get" -> "/tickets/1"

PublicPath(r) == Path(r) \in {"/register", "/login", "/health", "/_meta"}

\* keyGenerator on every request, wherever the limiter is mounted.
keyGeneratorByAddress(r) == r.ip

\* keyGenerator on a request: req.user ? req.user._id.toString() : req.ip
keyGeneratorOf(r) == IF r.user # "" THEN keyGenerator(r.user) ELSE r.ip

Addrs == {"10.0.0.1"}

GateReq(op, header, email, password) ==
  [NoReq EXCEPT !.op = op, !.auth = header, !.ip = "10.0.0.1", !.email = email,
                !.password = password, !.title = IF op = "create" THEN BodyA.title ELSE "",
                !.description = IF op = "create" THEN BodyA.description ELSE "",
                !.ticket = IF op = "get" THEN 1 ELSE 0]

\* The requests sent from the one address.  On c1: ticket calls with the token
\* of john_user, calls whose header is missing, has one part, has another
\* scheme, or carries a forged or an expired token, and two logins.  On c2:
\* reads with the tokens of john_user and jane_agent, a read without a header,
\* and a login.
GateInputs(p) ==
  IF p = "c1"
  THEN { GateReq(op, Header("Bearer", generateToken("john_user", 0)), "", "") :
           op \in {"create", "get"} }
       \cup { GateReq("create", h, "", "") :
                h \in { NoHeader,
                        [scheme |-> "InvalidFormat", token |-> {}],
                        Header("Basic", generateToken("john_user", 0)),
                        Header("Bearer", Forged("john_user")),
                        Header("Bearer", generateToken("john_user", 0 - TokenLifeMs)) } }
       \cup { GateReq("login", NoHeader, "john@example.com", pw) :
                pw \in {"password123", "wrong"} }
  ELSE { GateReq("get", Header("Bearer", generateToken(u, 0)), "", "") :
           u \in {"john_user", "jane_agent"} }
       \cup { GateReq("get", NoHeader, "", ""),
              GateReq("login", NoHeader, "john@example.com", "password123") }

\* POST /api/login: User.findOne({email}) and comparePassword.
login(r) ==
  IF r.email = "" \/ r.password = "" THEN Respond(400, "FIELD_REQUIRED")
  ELSE IF \A u \in users : Email(u) # r.email THEN Respond(401, "INVALID_CREDENTIALS")
  ELSE IF r.password # Password(CHOOSE u \in users : Email(u) = r.email)
  THEN Respond(401, "INVALID_CREDENTIALS")
  ELSE Respond(200, "")

\* The memory store's increment for one key.
increment(key) ==
  /\ \/ WindowOver(hits[key])
     \/ hits[key].totalHits < (IF key \in Addrs THEN MaxLogins ELSE MaxHits)
  /\ hits' = [hits EXCEPT ![key] = Increment(@)]

\* A request through server.js: the authentication gate (skipped for the
\* public paths), the rate limiter, and the route with its handler.
gateRequest(p) ==
  /\ pc[p] \in {"idle", "done"}
  /\ \E r0 \in GateInputs(p) :
       LET code == IF PublicPath(r0) THEN "" ELSE authenticateHeader(r0.auth)
           r == [r0 EXCEPT !.user = IF PublicPath(r0) \/ code # "" THEN ""
                                     ELSE ValueOf(r0.auth.token).userId]
           key == keyGeneratorOf(r)
           doc == NewTicket(Len(tickets) + 1, r.title, r.description, "medium",
                            r.user, now, now)
           ticket == findById(r.ticket)
       IN /\ req' = [req EXCEPT ![p] = r]
          /\ pc' = [pc EXCEPT ![p] = "done"]
          /\ IF code # ""
             THEN /\ resp' = [resp EXCEPT ![p] = Respond(401, code)]
                  /\ UNCHANGED <<tickets, hits>>
             ELSE /\ increment(key)
                  /\ IF OverLimit(Increment(hits[key]))
                     THEN /\ resp' = [resp EXCEPT ![p] = RateLimitResponse(Increment(hits[key]))]
                          /\ UNCHANGED tickets
                     ELSE CASE r.op = "login" ->
                                 /\ resp' = [resp EXCEPT ![p] = login(r)]
                                 /\ UNCHANGED tickets
                            [] r.op = "create" ->
                                 /\ Len(tickets) < MaxRateTickets
                                 /\ tickets' = Append(tickets, doc)
                                 /\ resp' = [resp EXCEPT ![p] =
                                               [Respond(201, "") EXCEPT !.ticket = doc]]
                            [] r.op = "get" ->
                                 /\ resp' = [resp EXCEPT ![p] =
                                      IF ticket = NoTicket THEN Respond(404, "TICKET_NOT_FOUND")
                                      ELSE IF Role(r.user) = "user" /\ ticket.created_by # r.user
                                      THEN Respond(403, "INSUFFICIENT_PERMISSIONS")
                                      ELSE [Respond(200, "") EXCEPT !.ticket = ticket]]
                                 /\ UNCHANGED tickets
  /\ UNCHANGED <<idem, now, loc, patchOk, created, comments, body, users, registered, client>>

\* POST /api/seed-production (NODE_ENV is production): User.deleteMany({}) and
\* User.create of the demo accounts, which get new ids.
seedProduction ==
  /\ users = Users
  /\ users' = Reseeded
  /\ registered' = << >>
  /\ UNCHANGED <<tickets, idem, hits, now, pc, req, loc, resp, patchOk, created,
                 comments, body, client>>

InitGate ==
  /\ tickets = << >>
  /\ idem = {}
  /\ hits = [k \in Users \cup Addrs |-> [totalHits |-> 0, resetTime |-> 0]]
  /\ now = 0
  /\ IdleProcs
  /\ patchOk = [t \in 1..MaxTickets |-> 0]
  /\ created = {}
  /\ SeededUsers

NextGate ==
  \/ gateRequest("c1")
  \/ seedProduction

SpecGate == InitGate /\ [][NextGate]_vars

\* Two identities and the address they share, each with its own counter.
NextKeys == gateRequest("c2")

SpecKeys == InitGate /\ [][NextKeys]_vars

\* ------------------------------------------------------ POST /api/register
MaxRegistered == 2

Username(u) ==
  CASE u \in {"john_user", "john_user.2"} -> "john_user"
    [] u \in {"jane_agent", "jane_agent.2"} -> "jane_agent"
    [] u \in {"admin_user", "admin_user.2"} -> "admin_user"

\* The documents of the User collection: the seeded accounts and the
\* registered ones.
UserDocs ==
  { [id |-> u, username |-> Username(u), email |-> Email(u)] : u \in users }
  \cup { [id |-> registered[i].id, username |-> registered[i].username,
          email |-> registered[i].email] : i \in DOMAIN registered }

\* The _id the database gives the n-th registered user.
NewUserId(n) == <<"u1", "u2", "u3", "u4">>[n]

\* User.findOne({$or: [{email}, {username}]}): the matching documents.
findOneUser(username, email) ==
  { d \in UserDocs : d.email = email \/ d.username = username }

\* The User schema's role enum, checked by save(): role is user, agent or
\* admin.
ValidUser(doc) == doc.role \in {"user", "agent", "admin"}

\* The User schema's unique indexes on username and on email: an insert of a
\* document that shares either with a stored one fails.
DuplicateUser(doc) ==
  \E d \in UserDocs : d.username = doc.username \/ d.email = doc.email

RegisterReq(username, email, password, role) ==
  [NoReq EXCEPT !.op = "register", !.username = username, !.email = email,
                !.password = password, !.role = role, !.ip = "10.0.0.1"]

\* The registrations sent: new names and addresses, each also from the other
\* connection, a new name with a taken address and a taken name with a new
\* address, the name of a seeded account, a body without a username, and a
\* role outside the enum.
RegisterInputs(p) ==
  IF p = "c1"
  THEN { RegisterReq("alice", "alice@example.com", "secret1", Undefined),
         RegisterReq("bob", "alice@example.com", "secret1", Undefined),
         RegisterReq("john_user", "j2@example.com", "secret1", Undefined),
         RegisterReq("", "alice@example.com", "secret1", Undefined),
         RegisterReq("carol", "carol@example.com", "secret1", "root") }
  ELSE { RegisterReq("alice", "alice@example.com", "secret2", "agent"),
         RegisterReq("alice", "al@example.com", "secret2", Undefined),
         RegisterReq("bob", "bob@example.com", "secret2", Undefined) }

\* The validation block at the head of the handler: the missing field, or "".
RegisterValidation(r) ==
  IF r.username = "" THEN "username"
  ELSE IF r.email = "" THEN "email"
  ELSE IF r.password = "" THEN "password"
  ELSE ""

\* First step of the handler: validation, User.findOne, and new User({...}).
registerBegin(p) ==
  /\ pc[p] \in {"idle", "done"}
  /\ \E r \in RegisterInputs(p) :
       /\ req' = [req EXCEPT ![p] = r]
       /\ IF RegisterValidation(r) # ""
          THEN /\ resp' = [resp EXCEPT ![p] =
                    [Respond(400, "FIELD_REQUIRED") EXCEPT !.field = RegisterValidation(r)]]
               /\ pc' = [pc EXCEPT ![p] = "done"]
          ELSE IF findOneUser(r.username, r.email) # {}
          THEN /\ \E existingUser \in findOneUser(r.username, r.email) :
                    resp' = [resp EXCEPT ![p] =
                      [Respond(400, "FIELD_DUPLICATE") EXCEPT
                         !.field = IF existingUser.email = r.email
                                   THEN "email" ELSE "username"]]
               /\ pc' = [pc EXCEPT ![p] = "done"]
          ELSE /\ Len(registered) + Cardinality({q \in Procs : pc[q] = "register_save"})
                    < MaxRegistered + 1
               /\ resp' = [resp EXCEPT ![p] = NoResp]
               /\ pc' = [pc EXCEPT ![p] = "register_save"]
  /\ UNCHANGED <<tickets, idem, hits, now, loc, patchOk, created, comments, body,
                 users, registered, client>>

\* Second step: user.save() with the schema's validation and unique indexes,
\* and the 201; an error of the save that is not a ValidationError lands in
\* the catch block's 500.
registerSave(p) ==
  /\ pc[p] = "register_save"
  /\ LET r == req[p]
         doc == [id |-> NewUserId(Len(registered) + 1), username |-> r.username,
                 email |-> r.email,
                 role |-> IF r.role # Undefined THEN r.role ELSE "user"]
     IN IF ~ValidUser(doc)
        THEN /\ resp' = [resp EXCEPT ![p] =
                  [Respond(400, "VALIDATION_ERROR") EXCEPT !.field = "role"]]
             /\ UNCHANGED registered
        ELSE IF DuplicateUser(doc)
        THEN /\ resp' = [resp EXCEPT ![p] = Respond(500, "INTERNAL_ERROR")]
             /\ UNCHANGED registered
        ELSE /\ registered' = Append(registered, doc)
             /\ resp' = [resp EXCEPT ![p] = Respond(201, "")]
  /\ pc' = [pc EXCEPT ![p] = "done"]
  /\ UNCHANGED <<tickets, idem, hits, now, req, loc, patchOk, created, comments,
                 body, users, client>>

NextRegister ==
  \/ \E p \in Procs : registerBegin(p)
  \/ \E p \in Procs : registerSave(p)

SpecRegister == InitCreate /\ [][NextRegister]_vars

\* ------------------------------------------------- GET /api/tickets, /:id
MaxReadTicks == 3
DefaultLimit == 10
ReadStepMs == 12 * 60 * 60 * 1000

\* The characters of the strings that are searched or parsed.
Letters(s) ==
  CASE s = "t1" -> <<"t", "1">>
    [] s = "d1" -> <<"d", "1">>
    [] s = "t2" -> <<"t", "2">>
    [] s = "d2" -> <<"d", "2">>
    [] s = "T" -> <<"T">>
    [] s = "vpn" -> <<"v", "p", "n">>
    [] s = "VPN down" -> <<"V", "P", "N", " ", "d", "o", "w", "n">>
    [] s = "ok" -> <<"o", "k">>
    [] s = "0" -> <<"0">>
    [] s = "1" -> <<"1">>
    [] s = "2" -> <<"2">>
    [] s = "3" -> <<"3">>
    [] s = "2x" -> <<"2", "x">>
    [] s = "abc" -> <<"a", "b", "c">>
    [] OTHER -> << >>

Lower(c) ==
  CASE c = "T" -> "t" [] c = "V" -> "v" [] c = "P" -> "p" [] c = "N" -> "n"
    [] OTHER -> c

Digits == <<"0", "1", "2", "3", "4", "5", "6", "7", "8", "9">>

IsDigit(c) == \E d \in 1..10 : Digits[d] = c

DigitValue(c) == (CHOOSE d \in 1..10 : Digits[d] = c) - 1

RECURSIVE DigitsValue(_, _)
DigitsValue(cs, n) ==
  IF n = 0 THEN 0 ELSE 10 * DigitsValue(cs, n - 1) + DigitValue(cs[n])

\* parseInt of a query parameter: the number its leading digits spell, or NaN
\* ({}) when it is absent or does not start with a digit.
parseInt(s) ==
  IF s = Undefined THEN {}
  ELSE LET cs == Letters(s)
           n == Cardinality({k \in 1..Len(cs) : \A i \in 1..k : IsDigit(cs[i])})
       IN IF n = 0 THEN {} ELSE {DigitsValue(cs, n)}

\* parseInt(x) || d: NaN and 0 are falsy.
OrDefault(x, d) == IF x = {} \/ x = {0} THEN d ELSE ValueOf(x)

\* { $regex: q, $options: 'i' } on a text, for a q without metacharacters:
\* q occurs in the text, letter case aside.
regex(q, text) ==
  LET Q == Letters(q)
      S == Letters(text)
  IN \E i \in 1..(Len(S) - Len(Q) + 1) :
       \A j \in 1..Len(Q) : Lower(S[i + j - 1]) = Lower(Q[j])

CommentIds == 1..Len(comments)

\* Comment.find({text: {$regex}}).distinct('ticket_id')
commentTicketIds(q) == { comments[c].ticket_id : c \in {d \in CommentIds : regex(q, comments[d].text)} }

\* The filter in which the search overwrites the created_by condition.
filterOverwritten(q, user, ticket) ==
  IF q # Undefined /\ q # ""
  THEN \/ regex(q, ticket.title)
       \/ regex(q, ticket.description)
       \/ ticket.id \in commentTicketIds(q)
  ELSE Role(user) = "user" => ticket.created_by = user

\* The filter object of the list handler, applied to one ticket.
filter(q, user, ticket) ==
  /\ (q # Undefined /\ q # "") =>
       \/ regex(q, ticket.title)
       \/ regex(q, ticket.description)
       \/ ticket.id \in commentTicketIds(q)
  /\ Role(user) = "user" => ticket.created_by = user

\* ticketSchema.virtual('is_sla_breached') with the wrong comparison.
is_sla_breachedAtDue(ticket) == ticket.status # "resolved" /\ now >= ticket.due_at

\* ticketSchema.virtual('is_sla_breached'): new Date() is the time of the read.
is_sla_breached(ticket) == ticket.status # "resolved" /\ now > ticket.due_at

\* toJSON with virtuals: the stored fields and the virtual field.
toJSON(ticket) ==
  [f \in DOMAIN ticket \cup {"is_sla_breached"} |->
     IF f = "is_sla_breached" THEN is_sla_breached(ticket) ELSE ticket[f]]

\* .sort({created_at: -1}): the orders of a set of tickets in which created_at
\* never increases; tickets of one created_at come in any order.
RECURSIVE sortDescending(_)
sortDescending(S) ==
  IF S = {} THEN { << >> }
  ELSE UNION { { <<t>> \o rest : rest \in sortDescending(S \ {t}) } :
               t \in { x \in S : \A y \in S :
                                   tickets[x].created_at >= tickets[y].created_at } }

\* .skip(offset).limit(n) on a sorted result.
skipLimit(o, offset, n) ==
  [i \in 1..(IF Len(o) - offset < n
             THEN (IF Len(o) > offset THEN Len(o) - offset ELSE 0) ELSE n) |->
     o[offset + i]]

\* limit(limit) without the extra row.
FetchCountExact(limit) == limit

\* .limit(limit + 1): get one extra to check if there are more.
FetchCount(limit) == limit + 1

ListReq(u, limit, offset, q) ==
  [NoReq EXCEPT !.op = "list", !.user = u, !.limit = limit, !.offset = offset,
                !.q = q]

\* The list requests: every identity, limits and offsets as query strings
\* (absent, numbers, and text that is not a number), and searches that match
\* titles, descriptions, or only a comment.
ListInputs ==
  { ListReq(u, l, o, q) :
      u \in Users,
      l \in {Undefined, "0", "1", "2x", "abc"},
      o \in {Undefined, "1", "3"},
      q \in {Undefined, "T", "vpn"} }

\* The handler of GET /api/tickets for the request r: the query, the page
\* and the response.
listResponse(p, r) ==
  /\ pc[p] \in {"idle", "done"}
  /\ LET limit == OrDefault(parseInt(r.limit), DefaultLimit)
         offset == OrDefault(parseInt(r.offset), 0)
         found == { t \in TicketIds : filter(r.q, r.user, tickets[t]) }
     IN \E o \in sortDescending(found) :
          LET rows == skipLimit(o, offset, FetchCount(limit))
              hasMore == Len(rows) > limit
              items == IF hasMore THEN SubSeq(rows, 1, limit) ELSE rows
          IN /\ authenticateToken(r.user)
             /\ req' = [req EXCEPT ![p] = r]
             /\ resp' = [resp EXCEPT ![p] = Respond(200, "")]
             /\ body' = [NoBody EXCEPT
                           !.items = [i \in 1..Len(items) |-> toJSON(tickets[items[i]])],
                           !.next_offset = IF hasMore THEN {offset + limit} ELSE {},
                           !.total_returned = Len(items)]
  /\ pc' = [pc EXCEPT ![p] = "done"]
  /\ UNCHANGED <<tickets, idem, hits, now, loc, patchOk, created, comments, users, registered>>

\* GET /api/tickets
listTickets(p) ==
  /\ \E r \in ListInputs : listResponse(p, r)
  /\ UNCHANGED client

ReadInputs == { GetReq(u, t) : u \in Users, t \in 1..(MaxTickets + 2) }

\* The handler of GET /api/tickets/:id for the request r: the ticket with its
\* comments, oldest first.
getResponse(p, r) ==
  /\ pc[p] \in {"idle", "done"}
  /\ LET ticket == findById(r.ticket)
     IN /\ authenticateToken(r.user)
        /\ req' = [req EXCEPT ![p] = r]
        /\ IF ticket = NoTicket
           THEN /\ resp' = [resp EXCEPT ![p] = Respond(404, "TICKET_NOT_FOUND")]
                /\ body' = NoBody
           ELSE IF Role(r.user) = "user" /\ ticket.created_by # r.user
           THEN /\ resp' = [resp EXCEPT ![p] = Respond(403, "INSUFFICIENT_PERMISSIONS")]
                /\ body' = NoBody
           ELSE /\ resp' = [resp EXCEPT ![p] = Respond(200, "")]
                /\ body' = [NoBody EXCEPT
                              !.ticket = {toJSON(ticket)},
                              !.comments = SelectSeq(comments,
                                             LAMBDA c : c.ticket_id = r.ticket)]
  /\ pc' = [pc EXCEPT ![p] = "done"]
  /\ UNCHANGED <<tickets, idem, hits, now, loc, patchOk, created, comments, users, registered>>

\* GET /api/tickets/:id
getTicket(p) ==
  /\ \E r \in ReadInputs : getResponse(p, r)
  /\ UNCHANGED client

CommentsReq(u, t) == [NoReq EXCEPT !.op = "comments", !.user = u, !.ticket = t]

CommentsInputs == { CommentsReq(u, t) : u \in Users, t \in 1..(MaxTickets + 2) }

\* The comments.map of the response: id, text, author, parent_id, created_at.
\* author is not a path of the schema and stays undefined.
CommentJSON(c) ==
  [id |-> c.id, text |-> c.text, author |-> Undefined, parent_id |-> c.parent_id,
   created_at |-> c.created_at]

\* GET /api/tickets/:ticketId/comments: authenticateToken and Ticket.findById,
\* then Comment.find with populate('author').  author is not a path of
\* commentSchema: a Mongoose with strictPopulate throws, and the catch block
\* answers 500; an older one ignores the path and the comments are sent.
getComments(p) ==
  /\ pc[p] \in {"idle", "done"}
  /\ \E r \in CommentsInputs :
       LET ticket == findById(r.ticket)
           found == SelectSeq(comments, LAMBDA c : c.ticket_id = r.ticket)
       IN /\ authenticateToken(r.user)
          /\ req' = [req EXCEPT ![p] = r]
          /\ IF ticket = NoTicket
             THEN /\ resp' = [resp EXCEPT ![p] = Respond(404, "TICKET_NOT_FOUND")]
                  /\ body' = NoBody
             ELSE \/ /\ resp' = [resp EXCEPT ![p] = Respond(200, "")]
                     /\ body' = [NoBody EXCEPT
                                   !.comments = [i \in 1..Len(found) |-> CommentJSON(found[i])]]
                  \/ /\ resp' = [resp EXCEPT ![p] = Respond(500, "INTERNAL_ERROR")]
                     /\ body' = NoBody
  /\ pc' = [pc EXCEPT ![p] = "done"]
  /\ UNCHANGED <<tickets, idem, hits, now, loc, patchOk, created, comments, users, registered, client>>

TickRead ==
  /\ now < MaxReadTicks * ReadStepMs
  /\ now' = now + ReadStepMs
  /\ UNCHANGED <<tickets, idem, hits, pc, req, loc, resp, patchOk, created,
                 comments, body, users, registered, client>>

\* A stored comment.
NewComment(id, ticket_id, user_id, text, parent_id, at) ==
  [id |-> id, ticket_id |-> ticket_id, user_id |-> user_id, text |-> text,
   parent_id |-> parent_id, created_at |-> at]

\* The update a PATCH with this status makes to a ticket at time at.
Patched(ticket, status, at) ==
  ApplyUpdates(ticket, [NoReq EXCEPT !.status = status],
               [NoLoc EXCEPT !.version = ticket.version, !.updated_at = at])

\* A database as the routes leave it twelve hours after the first ticket was
\* created: two tickets of john_user,
\* one of jane_agent and one of admin_user, the first two created in the same
\* millisecond, three of them patched to the other statuses, and a comment
\* on jane_agent's ticket and one on john_user's.
InitRead ==
  /\ tickets =
       << NewTicket(1, "t1", "d1", "medium", "john_user", 0, 0),
          Patched(NewTicket(2, "t2", "d2", "high", "jane_agent", 0, 0), "resolved", 2000),
          Patched(NewTicket(3, "t1", "d2", "medium", "john_user", 1000, 1000), "closed", 2000),
          Patched(NewTicket(4, "t2", "d1", "low", "admin_user", ReadStepMs, ReadStepMs),
                  "in_progress", ReadStepMs) >>
  /\ comments = << NewComment(1, 2, "jane_agent", "VPN down", 0, 1000),
                   NewComment(2, 1, "john_user", "ok", 0, 2000) >>
  /\ now = ReadStepMs
  /\ idem = {}
  /\ EmptyLimiter
  /\ IdleProcs
  /\ patchOk = [t \in 1..MaxTickets |-> 0]
  /\ created = {}
  /\ body = NoBody
  /\ users = Users
  /\ registered = << >>
  /\ client = [p \in Procs |-> NoClient]

\* --------------------------------------------- the ticket list, page by page
\* offset.toString()
toString(n) == <<"0", "1", "2", "3", "4", "5">>[n + 1]

\* The limits the paging client uses, its searches, and who is logged in.
PageLimits == {"1", "2", "3"}
PageSearches == {Undefined, "T"}
PageUsers == {"john_user", "jane_agent"}

\* The ids of the items of a response body.
ItemIds(b) == [i \in DOMAIN b.items |-> b.items[i].id]

\* fetchTickets(search, 0, true): the first page replaces the list.
fetchTickets(p) ==
  /\ \E u \in PageUsers : \E l \in PageLimits : \E q \in PageSearches :
       listResponse(p, ListReq(u, l, toString(0), q))
  /\ client' = [client EXCEPT ![p] =
                  [@ EXCEPT !.items = ItemIds(body'), !.next_offset = body'.next_offset]]

\* loadMore: when the last page came with a next_offset, the page at that
\* offset is appended to the list.
loadMore(p) ==
  /\ req[p].op = "list"
  /\ client[p].next_offset # {}
  /\ listResponse(p, [req[p] EXCEPT !.offset = toString(ValueOf(client[p].next_offset))])
  /\ client' = [client EXCEPT ![p] =
                  [@ EXCEPT !.items = @ \o ItemIds(body'),
                            !.next_offset = body'.next_offset]]

NextPage ==
  \/ fetchTickets("c1")
  \/ loadMore("c1")
  \/ TickRead

SpecPage == InitRead /\ [][NextPage]_vars

\* ------------------------------------- clients that retry after a conflict
\* Who is logged in on which connection, and the update each wants. The form
\* sends the fields the user left alone with the values of the ticket read;
\* a PATCH that passes the version check finds exactly those values stored,
\* so they are left out of the body here.
RetryUser(p) == IF p = "c1" THEN "jane_agent" ELSE "admin_user"

RetryBodies(p) ==
  IF p = "c1" THEN {StatusBody("in_progress"), StatusBody("resolved")}
  ELSE {[StatusBody(Undefined) EXCEPT !.priority = "urgent"],
        [StatusBody(Undefined) EXCEPT !.assigned_to = "jane_agent"]}

\* fetchTicket: on opening the page, and again from the catch block of
\* handleUpdateTicket after a 409; the client keeps the ticket it is sent.
fetchTicket(p) ==
  /\ \/ req[p].op = "none"
     \/ req[p].op = "patch" /\ resp[p].status = 409
  /\ getResponse(p, GetReq(RetryUser(p), 1))
  /\ client' = [client EXCEPT ![p] =
                  [@ EXCEPT !.version = ValueOf(body'.ticket).version,
                            !.refreshes = IF req[p].op = "patch" THEN @ + 1 ELSE @]]

\* handleUpdateTicket: the PATCH carries version: ticket.version of the
\* ticket the client last read.
handleUpdateTicket(p) ==
  /\ req[p].op = "get" /\ resp[p].status = 200
  /\ \E b \in RetryBodies(p) :
       patchRequest(p, PatchReq(RetryUser(p), 1, b, {client[p].version}))

NextRetry ==
  \/ \E p \in Procs : fetchTicket(p)
  \/ \E p \in Procs : handleUpdateTicket(p)
  \/ \E p \in Procs : patchUpdate(p)
  \/ TickPatch

\* Every client acts again in the end, and the event loop runs every handler
\* that waits for the database.
FairRetry ==
  \A p \in Procs :
    /\ WF_vars(fetchTicket(p))
    /\ WF_vars(handleUpdateTicket(p))
    /\ WF_vars(patchUpdate(p))

SpecRetry == InitPatch /\ [][NextRetry]_vars /\ FairRetry

NextRead ==
  \/ listTickets("c1")
  \/ getTicket("c1")
  \/ getComments("c1")
  \/ TickRead

SpecRead == InitRead /\ [][NextRead]_vars

\* ------------------------------------------ POST /api/tickets/:id/comments
MaxComments == 3

\* trim: true of the text path; " " is a text of white space only.
Trim(text) == IF text = " " THEN "" ELSE text

\* A permission check that lets every authenticated caller comment.
mayCommentAny(user, ticket) == user \in Users

\* Check permissions - users can only comment on their own tickets.
mayComment(user, ticket) == ~(Role(user) = "user" /\ ticket.created_by # user)

\* Comment.findById
findCommentById(id) == IF id \in CommentIds THEN {comments[id]} ELSE {}

\* The parent check that only asks whether the parent exists.
parentErrorIfAbsent(parent_id, ticketId) ==
  IF parent_id # 0 /\ findCommentById(parent_id) = {}
  THEN Respond(404, "PARENT_COMMENT_NOT_FOUND") ELSE NoResp

\* If parent_id is provided, verify it exists and belongs to the same ticket:
\* the error response, or NoResp.
parentError(parent_id, ticketId) ==
  IF parent_id = 0 THEN NoResp
  ELSE IF findCommentById(parent_id) = {} THEN Respond(404, "PARENT_COMMENT_NOT_FOUND")
  ELSE IF ValueOf(findCommentById(parent_id)).ticket_id # ticketId
  THEN Respond(400, "INVALID_PARENT_COMMENT")
  ELSE NoResp

CommentReq(u, t, text, parent_id) ==
  [NoReq EXCEPT !.op = "comment", !.user = u, !.ticket = t, !.text = text,
                !.parent_id = parent_id]

\* The comments sent: john_user (c1) on his own ticket, on jane_agent's and on
\* a ticket id that does not exist, with and without text and with every
\* parent id; an agent and an admin (c2) on both tickets.
CommentInputs(p) ==
  IF p = "c1"
  THEN { CommentReq("john_user", t, "ok", parent) :
           t \in {1, 2}, parent \in 0..MaxComments }
       \cup { CommentReq("john_user", 1, "", 1), CommentReq("john_user", 1, " ", 0),
              CommentReq("john_user", 2, "", 0),
              CommentReq("john_user", MaxTickets, "ok", 0) }
  ELSE { CommentReq("jane_agent", t, "ok", parent) : t \in {1, 2}, parent \in {0, 1, 2} }
       \cup { CommentReq("admin_user", 1, "ok", 0) }

\* First step of the handler: validation, Ticket.findById, the permission
\* check, Comment.findById of the parent, and new Comment({...}).
commentBegin(p) ==
  /\ pc[p] \in {"idle", "done"}
  /\ \E r \in CommentInputs(p) :
       LET ticket == findById(r.ticket)
       IN /\ authenticateToken(r.user)
          /\ req' = [req EXCEPT ![p] = r]
          /\ loc' = [loc EXCEPT ![p] = [NoLoc EXCEPT !.created_at = now]]
          /\ IF r.text = ""
             THEN /\ resp' = [resp EXCEPT ![p] = Respond(400, "FIELD_REQUIRED")]
                  /\ pc' = [pc EXCEPT ![p] = "done"]
             ELSE IF ticket = NoTicket
             THEN /\ resp' = [resp EXCEPT ![p] = Respond(404, "TICKET_NOT_FOUND")]
                  /\ pc' = [pc EXCEPT ![p] = "done"]
             ELSE IF ~mayComment(r.user, ticket)
             THEN /\ resp' = [resp EXCEPT ![p] = Respond(403, "INSUFFICIENT_PERMISSIONS")]
                  /\ pc' = [pc EXCEPT ![p] = "done"]
             ELSE IF parentError(r.parent_id, r.ticket) # NoResp
             THEN /\ resp' = [resp EXCEPT ![p] = parentError(r.parent_id, r.ticket)]
                  /\ pc' = [pc EXCEPT ![p] = "done"]
             ELSE /\ Len(comments) + Cardinality({q \in Procs : pc[q] = "comment_save"})
                       < MaxComments
                  /\ resp' = [resp EXCEPT ![p] = NoResp]
                  /\ pc' = [pc EXCEPT ![p] = "comment_save"]
  /\ UNCHANGED <<tickets, idem, hits, now, patchOk, created, comments, body, users, registered, client>>

\* A save that replaces the author's earlier comment on the ticket.
insertCommentUpsert(cs, doc) ==
  IF \E c \in 1..Len(cs) : cs[c].ticket_id = doc.ticket_id /\ cs[c].user_id = doc.user_id
  THEN LET c == CHOOSE d \in 1..Len(cs) :
                  cs[d].ticket_id = doc.ticket_id /\ cs[d].user_id = doc.user_id
       IN [cs EXCEPT ![c] = [doc EXCEPT !.id = c]]
  ELSE Append(cs, doc)

\* comment.save() of a new document: an insert into the collection.
insertComment(cs, doc) == Append(cs, doc)

\* Second step: comment.save() with the schema's validation of the trimmed
\* text, and the 201.
commentSave(p) ==
  /\ pc[p] = "comment_save"
  /\ LET r == req[p]
     IN IF Trim(r.text) = ""
        THEN /\ resp' = [resp EXCEPT ![p] = Respond(400, "VALIDATION_ERROR")]
             /\ UNCHANGED comments
        ELSE /\ comments' = insertComment(comments,
                              NewComment(Len(comments) + 1, r.ticket, r.user,
                                         Trim(r.text), r.parent_id, loc[p].created_at))
             /\ resp' = [resp EXCEPT ![p] = Respond(201, "")]
  /\ pc' = [pc EXCEPT ![p] = "done"]
  /\ UNCHANGED <<tickets, idem, hits, now, req, loc, patchOk, created, body, users, registered, client>>

\* Two tickets, one created by john_user and one by jane_agent, and no
\* comment yet.
InitComment ==
  /\ tickets = << NewTicket(1, "t1", "d1", "medium", "john_user", 0, 0),
                  NewTicket(2, "t2", "d2", "high", "jane_agent", 0, 0) >>
  /\ idem = {}
  /\ EmptyLimiter
  /\ now = 0
  /\ IdleProcs
  /\ patchOk = [t \in 1..MaxTickets |-> 0]
  /\ created = {}
  /\ SeededUsers

NextComment ==
  \/ \E p \in Procs : commentBegin(p)
  \/ \E p \in Procs : commentSave(p)

SpecComment == InitComment /\ [][NextComment]_vars

\* ---------------------------------------------- properties of the update path
PatchDone(p) == pc[p] = "done" /\ req[p].op = "patch"

\* Connection p sends a request in this step: the first step of its handler.
Begins(p, op) ==
  /\ pc[p] \in {"idle", "done"}
  /\ <<pc[p], req[p], resp[p], loc[p], hits>> # <<pc'[p], req'[p], resp'[p], loc'[p], hits'>>
  /\ req'[p].op = op

\* C1: of two PATCH requests on one ticket that carry the same version, never
\* both return 200: one succeeds and the other is answered 409.
C1_ExactlyOneSucceeds ==
  \A p, q \in Procs :
    ( /\ p # q
      /\ PatchDone(p) /\ PatchDone(q)
      /\ req[p].ticket = req[q].ticket
      /\ Supplied(req[p].version)
      /\ req[p].version = req[q].version )
    => ~(resp[p].status = 200 /\ resp[q].status = 200)

\* C2: a ticket's version is 1 plus the number of PATCH requests on it that
\* returned 200.
C2_VersionCountsUpdates ==
  \A t \in TicketIds : tickets[t].version = 1 + patchOk[t]

\* C3: a PATCH whose supplied version differs from the stored version is
\* answered 409 VERSION_CONFLICT carrying the stored version, and the ticket
\* store is left as it was.
C3_ConflictLeavesTicket ==
  [][\A p \in Procs :
       ( /\ Begins(p, "patch")
         /\ requireRole({"agent", "admin"}, req'[p].user)
         /\ req'[p].ticket \in TicketIds
         /\ Supplied(req'[p].version)
         /\ ValueOf(req'[p].version) # tickets[req'[p].ticket].version )
       => ( /\ pc'[p] = "done"
            /\ resp'[p].status = 409
            /\ resp'[p].code = "VERSION_CONFLICT"
            /\ resp'[p].current_version = tickets[req'[p].ticket].version
            /\ tickets' = tickets )]_vars

\* A conflict reported after an update: the stale version 1 against stored 2.
C3_Witness ==
  \E p \in Procs :
    /\ PatchDone(p)
    /\ resp[p].status = 409
    /\ req[p].version = {1}
    /\ resp[p].current_version = 2
    /\ tickets[req[p].ticket].version = 2

\* C4: every PATCH that returned 200 carried a version, equal to the version
\* the handler read from the store.
C4_SuccessCarriedVersion ==
  \A p \in Procs :
    (PatchDone(p) /\ resp[p].status = 200)
    => (Supplied(req[p].version) /\ ValueOf(req[p].version) = loc[p].version)

C25_PatchChangesSuppliedFields ==
  [][\A p \in Procs :
       (pc[p] = "patch_update" /\ pc'[p] = "done" /\ resp'[p].status = 200) =>
         LET t == req[p].ticket
             old == tickets[t]
             new == tickets'[t]
         IN /\ Len(tickets') = Len(tickets)
            /\ \A o \in TicketIds \ {t} : tickets'[o] = tickets[o]
            /\ \A f \in {"id", "title", "description", "created_by", "created_at",
                          "due_at"} : new[f] = old[f]
            /\ req[p].status = Undefined => new.status = old.status
            /\ req[p].priority = Undefined => new.priority = old.priority
            /\ req[p].assigned_to = Undefined => new.assigned_to = old.assigned_to
            /\ req[p].assigned_to = Null => new.assigned_to = Null
            /\ resp'[p].ticket = new ]_vars

\* The ticket unassigned by a body of assigned_to: null alone, still resolved
\* as the PATCH before had left it, with the priority it was created with.
C25_Witness ==
  \E p \in Procs :
    /\ PatchDone(p)
    /\ resp[p].status = 200
    /\ req[p].assigned_to = Null /\ req[p].status = Undefined
    /\ tickets[1].assigned_to = Null
    /\ tickets[1].status = "resolved"
    /\ tickets[1].priority = "medium"
    /\ tickets[1].version = 3
    /\ tickets[1].updated_at > tickets[1].created_at
    /\ tickets[1].due_at = tickets[1].created_at + SlaMs

\* C27: every stored ticket has a status and a priority of the enums, and an
\* agent's or admin's PATCH that carries the ticket's current version and one
\* of the four statuses is not refused, whatever the ticket's status is, and
\* returns 200 with the ticket in that status.
C27_AnyStatusFromAny ==
  [][ /\ \A t \in 1..Len(tickets') :
           /\ tickets'[t].status \in {"open", "in_progress", "resolved", "closed"}
           /\ tickets'[t].priority \in {"low", "medium", "high", "urgent"}
      /\ \A p \in Procs :
           ( /\ Begins(p, "patch")
             /\ Role(req'[p].user) \in {"agent", "admin"}
             /\ req'[p].ticket \in TicketIds
             /\ req'[p].version = {tickets[req'[p].ticket].version}
             /\ req'[p].status \in {"open", "in_progress", "resolved", "closed"}
             /\ req'[p].priority = Undefined )
           => pc'[p] = "patch_update"
      /\ \A p \in Procs :
           ( /\ pc[p] = "patch_update" /\ pc'[p] = "done"
             /\ req[p].status \in {"open", "in_progress", "resolved", "closed"}
             /\ req[p].priority = Undefined )
           => ( /\ resp'[p].status = 200
                /\ resp'[p].ticket.status = req[p].status
                /\ tickets'[req[p].ticket].status = req[p].status ) ]_vars

\* A closed ticket reopened: admin_user's PATCH made version 2 closed, and
\* jane_agent's, carrying version 2, made version 3 open; a second ticket
\* was created meanwhile.
C27_Witness ==
  /\ PatchDone("c1") /\ resp["c1"].status = 200
  /\ req["c1"].version = {2} /\ req["c1"].status = "open"
  /\ tickets[1].status = "open" /\ tickets[1].version = 3
  /\ Len(tickets) = 2 /\ tickets[2].priority = "high"

\* The update of the client on connection p has returned 200.
Updated(p) == PatchDone(p) /\ resp[p].status = 200

\* C30: when a client's PATCH is answered 409, the PATCH of another client has
\* returned 200; every client's update returns 200 in the end; and a PATCH
\* that has passed the version check is answered without waiting for
\* anything.
C30_EveryUpdateSucceeds ==
  /\ [](\A p \in Procs :
         (PatchDone(p) /\ resp[p].status = 409) => \E q \in Procs \ {p} : Updated(q))
  /\ \A p \in Procs : <>Updated(p)
  /\ \A p \in Procs : (pc[p] = "patch_update") ~> (pc[p] = "done")

\* A client whose first PATCH met a conflict has read the ticket again and
\* its PATCH with version 2 has returned 200, after the other client's.
C30_Witness ==
  \E p \in Procs :
    /\ Updated(p)
    /\ client[p].refreshes = 1
    /\ req[p].version = {2}
    /\ \A q \in Procs : Updated(q)
    /\ tickets[1].version = 3

\* ------------------------------------------ properties of the create path
CreateDone(p) == pc[p] = "done" /\ req[p].op = "create"

\* The 201 responses of creating calls for (key, identity) that are less than
\* the retention window old.
RecentFirstCalls(k, u) ==
  { e \in created : e.key = k /\ e.user_id = u /\ now < e.at + expires * 1000 }

C6_KeysScopedPerIdentity ==
  \A p \in Procs :
    ( /\ CreateDone(p)
      /\ loc[p].doc # NoTicket
      /\ \E r \in idem : r.key = req[p].key /\ r.user_id # req[p].user )
    => ( /\ resp[p].status = 201
         /\ resp[p].ticket = loc[p].doc
         /\ resp[p].ticket.created_by = req[p].user )

\* C7: a call that repeats (key, identity) an hour or more after the first
\* call's record was made, and so finds no record, creates a new ticket and
\* returns 201 with it (the other connection being used by someone else).
C7_AfterExpiryCreates ==
  \A p \in Procs : \A e \in created :
    ( /\ CreateDone(p)
      /\ e.key = req[p].key /\ e.user_id = req[p].user
      /\ loc[p].doc # NoTicket
      /\ loc[p].created_at >= e.at + expires * 1000
      /\ \A q \in Procs \ {p} : req[q].user # req[p].user )
    => ( /\ resp[p].status = 201
         /\ resp[p].ticket.id # e.ticket.id )

\* C8: while no record can have expired and no other identity uses the key,
\* all calls of one identity with one key return 201 with one ticket id.
C8_ConcurrentCreatesOneTicket ==
  \A p, q \in Procs :
    ( /\ p # q
      /\ CreateDone(p) /\ CreateDone(q)
      /\ req[p].user = req[q].user
      /\ req[p].key # "" /\ req[p].key = req[q].key
      /\ Validation(req[p]) = "" /\ Validation(req[q]) = ""
      /\ now < expires * 1000
      /\ \A r \in idem : r.key = req[p].key => r.user_id = req[p].user )
    => ( /\ resp[p].status = 201 /\ resp[q].status = 201
         /\ resp[p].ticket.id = resp[q].ticket.id )

\* C14: the ticket a POST /tickets call has saved has status open, version
\* 1, no assignee, the caller as created_by, the supplied priority or medium,
\* and a due_at exactly 24 hours after its created_at.
C14_CreatedTicketDefaults ==
  \A p \in Procs :
    (CreateDone(p) /\ loc[p].doc # NoTicket) =>
      LET d == loc[p].doc
      IN /\ d.status = "open"
         /\ d.version = 1
         /\ d.assigned_to = Null
         /\ d.created_by = req[p].user
         /\ d.priority = IF req[p].priority # Undefined THEN req[p].priority ELSE "medium"
         /\ d.due_at = d.created_at + 24 * 60 * 60 * 1000
         /\ tickets[d.id] = d

\* C24: the ledger changes only by a POST /tickets that saved a ticket,
\* stores the record for its (key, identity) with that ticket as response and
\* returns 201, or by the removal of expired records; a call with a valid
\* body that finds a record of its (key, identity) returns 201 with the
\* response as stored, whatever the ticket is now, and writes nothing; a call
\* that fails validation, the handler's or the schema's, is answered 400 and
\* writes nothing; and a valid call that finds no record saves a ticket.
C24_LedgerWriteOnce ==
  [][ /\ idem' # idem =>
           \/ \E p \in Procs : \E rec \in idem' \ idem :
                /\ pc[p] = "post_record" /\ pc'[p] = "done"
                /\ resp'[p].status = 201
                /\ idem' = idem \cup {rec}
                /\ rec.key = req[p].key /\ rec.user_id = req[p].user
                /\ rec.response = loc[p].doc
                /\ rec.response = resp'[p].ticket
                /\ rec.response.id \in TicketIds
           \/ /\ idem' \subseteq idem
              /\ \A r \in idem \ idem' : Expired(r)
      /\ \A p \in Procs :
           (Begins(p, "create") /\ req'[p].key # "") =>
             IF Validation(req'[p]) # ""
             THEN /\ resp'[p].status = 400
                  /\ idem' = idem /\ tickets' = tickets
             ELSE /\ \A e \in idem :
                       (e.key = req'[p].key /\ e.user_id = req'[p].user) =>
                         /\ pc'[p] = "done"
                         /\ resp'[p].status = 201
                         /\ resp'[p].ticket = e.response
                         /\ idem' = idem /\ tickets' = tickets
                  /\ (\A e \in idem : ~(e.key = req'[p].key /\ e.user_id = req'[p].user))
                       => pc'[p] = "post_save"
      /\ \A p \in Procs :
           (pc[p] = "post_save" /\ pc'[p] # "post_save") =>
             IF req[p].priority \in PriorityEnum \cup {Undefined}
             THEN /\ Len(tickets') = Len(tickets) + 1
                  /\ tickets'[Len(tickets')].created_by = req[p].user
             ELSE /\ resp'[p].status = 400
                  /\ idem' = idem /\ tickets' = tickets ]_vars

\* A replay answered with the ticket as first stored, open at version 1,
\* after an agent has set the ticket in progress, and while a later call of
\* the same key with another body was answered with the stored ticket too.
C24_Witness ==
  /\ CreateDone("c1")
  /\ resp["c1"].status = 201
  /\ loc["c1"].doc = NoTicket
  /\ req["c1"].title # resp["c1"].ticket.title
  /\ resp["c1"].ticket.version = 1 /\ resp["c1"].ticket.status = "open"
  /\ tickets[resp["c1"].ticket.id].version = 2
  /\ tickets[resp["c1"].ticket.id].status = "in_progress"

\* C23: a request answered with an error status (4xx or 5xx) has changed no
\* store; for POST /tickets: when the call did not return 201, the store holds
\* no ticket that this call saved.
C23_ErrorLeavesStores ==
  \A p \in Procs :
    (CreateDone(p) /\ resp[p].status >= 400)
    => ~\E t \in TicketIds : tickets[t] = loc[p].doc

\* -------------------------------------------- properties of the rate limiter
ApiStep(p) == Begins(p, "create") \/ Begins(p, "get")

\* The requests of u that the current window has counted, 0 when u has no
\* window or its 60 seconds have passed.
CountedInWindow(u) ==
  IF hits[u].resetTime > now THEN hits[u].totalHits ELSE 0

\* C9: a request of an identity is admitted when fewer than 60 requests of
\* its current 60-second window came before it, and is otherwise answered
\* 429 RATE_LIMIT with the ticket and idempotency stores untouched; a window
\* ends 60 seconds after its first request, and the next request opens a
\* fresh one.
C9_SixtyPerWindow ==
  [][\A p \in Procs :
       ApiStep(p) =>
         LET u == req'[p].user
             n == CountedInWindow(u)
         IN /\ n < 60 => resp'[p].status # 429
            /\ n >= 60 => /\ resp'[p].status = 429
                          /\ resp'[p].code = "RATE_LIMIT"
                          /\ tickets' = tickets
                          /\ idem' = idem
            /\ hits'[u].totalHits = n + 1
            /\ hits'[u].resetTime =
                 IF n = 0 THEN now + 60000 ELSE hits[u].resetTime ]_vars

\* The 61st request of a window that opened after an earlier one had ended,
\* refused; one of the admitted requests created a ticket.
C9_Witness ==
  /\ Len(tickets) = 1
  /\ hits["john_user"].totalHits = 61
  /\ hits["john_user"].resetTime > windowMs
  /\ resp["c1"].status = 429

\* C10: the retry_after of a 429 lies between 0 and 60.
C10_RetryAfterSeconds ==
  \A p \in Procs :
    resp[p].code = "RATE_LIMIT" => resp[p].retry_after \in 0..60

\* ------------------------------------------------ properties of the reads
\* Connection p is answered a read in this step.
ReadStep(p, op) ==
  /\ pc[p] \in {"idle", "done"}
  /\ pc'[p] = "done"
  /\ req'[p].op = op
  /\ <<req[p], resp[p], body>> # <<req'[p], resp'[p], body'>>

\* The tickets a response body carries.
Sent(b) == b.ticket \cup { b.items[i] : i \in DOMAIN b.items }

\* C13: every ticket sent by a read carries is_sla_breached, true exactly when
\* its status is not resolved and the time of the read is later than its
\* due_at; the stored tickets have no such field and are not touched by it.
C13_SlaBreachOnRead ==
  [][\A p \in Procs :
       (ReadStep(p, "get") \/ ReadStep(p, "list")) =>
         /\ \A j \in Sent(body') :
              j.is_sla_breached = (j.status # "resolved" /\ now' > j.due_at)
         /\ tickets' = tickets
         /\ \A t \in TicketIds : DOMAIN tickets[t] = DOMAIN NoTicket ]_vars

\* One list sent 36 hours in: a resolved ticket past its due_at that is not
\* breached, a closed one that is, and one read at its due_at that is not.
C13_Witness ==
  /\ req["c1"].op = "list"
  /\ \E i, j, k \in DOMAIN body.items :
       /\ body.items[i].status = "resolved" /\ now > body.items[i].due_at
       /\ ~body.items[i].is_sla_breached
       /\ body.items[j].status = "closed" /\ body.items[j].is_sla_breached
       /\ body.items[k].status = "in_progress" /\ now = body.items[k].due_at
       /\ ~body.items[k].is_sla_breached

\* C16: every item of a list sent to a role=user caller was created by that
\* caller, for every limit, offset and q; an agent or admin who lists without
\* q, limit and offset is sent the tickets of all creators.
C16_UserListsOwnTickets ==
  [][\A p \in Procs :
       ReadStep(p, "list") =>
         LET r == req'[p]
         IN /\ Role(r.user) = "user" =>
                 \A i \in DOMAIN body'.items : body'.items[i].created_by = r.user
            /\ ( /\ Role(r.user) \in {"agent", "admin"}
                 /\ r.q = Undefined /\ r.limit = Undefined /\ r.offset = Undefined )
               => { body'.items[i].id : i \in DOMAIN body'.items } = TicketIds ]_vars

\* john_user searches for a word that only a comment on jane_agent's ticket
\* contains, and is sent nothing.
C16_Witness ==
  /\ pc["c1"] = "done"
  /\ req["c1"].op = "list"
  /\ req["c1"].user = "john_user"
  /\ req["c1"].q = "vpn"
  /\ commentTicketIds("vpn") = {2}
  /\ tickets[2].created_by = "jane_agent"
  /\ body.items = << >>
  /\ body.next_offset = {}

\* What a page sent for limit L and offset O must be.
PageOf(p, L, O) ==
  LET b == body'
      visible == { t \in TicketIds : filter(req'[p].q, req'[p].user, tickets[t]) }
  IN /\ Len(b.items) <= L
     /\ \A i, j \in DOMAIN b.items :
          i < j => b.items[i].created_at >= b.items[j].created_at
     /\ b.total_returned = Len(b.items)
     /\ b.next_offset = IF Cardinality(visible) > O + L THEN {O + L} ELSE {}

C28_UserNeverReadsOthersComments ==
  [][\A p \in Procs :
       ( /\ ReadStep(p, "get") \/ ReadStep(p, "comments")
         /\ Role(req'[p].user) = "user"
         /\ req'[p].ticket \in TicketIds
         /\ tickets[req'[p].ticket].created_by # req'[p].user )
       => ( /\ resp'[p].status = 403
            /\ body'.comments = << >> ) ]_vars

\* C29: while the tickets stay as they are, a client that starts at offset 0
\* and follows next_offset with a fixed limit is never sent a next_offset
\* past the tickets it may see, and once next_offset is null its list holds
\* every ticket visible to the caller exactly once.
C29_PagesCoverOnce ==
  \A p \in Procs :
    (pc[p] = "done" /\ req[p].op = "list") =>
      LET visible == { t \in TicketIds : filter(req[p].q, req[p].user, tickets[t]) }
          items == client[p].items
      IN /\ client[p].next_offset # {} =>
              ValueOf(client[p].next_offset) < Cardinality(visible)
         /\ client[p].next_offset = {} =>
              /\ { items[i] : i \in DOMAIN items } = visible
              /\ Len(items) = Cardinality(visible)

\* --------------------------------------------- properties of the comments
\* Every parent_id of the comments cs names a comment of cs on the same ticket.
ParentsValid(cs) ==
  \A c \in 1..Len(cs) :
    cs[c].parent_id # 0 =>
      /\ cs[c].parent_id \in 1..Len(cs)
      /\ cs[cs[c].parent_id].ticket_id = cs[c].ticket_id

\* The comment request r passes the checks that come before the parent check:
\* it has a text, its ticket exists, and its caller may comment on it.
ReachesParentCheck(r) ==
  /\ r.text # ""
  /\ r.ticket \in TicketIds
  /\ Role(r.user) = "user" => tickets[r.ticket].created_by = r.user

RegisterDone(p) == pc[p] = "done" /\ req[p].op = "register"

\* C21: no two identities share a username or an email, and a registration
\* with username, email and a valid role ends either in 201 or, its username
\* or email being taken, in 400 FIELD_DUPLICATE naming a field it shares with
\* a stored identity, also when the other registration ran concurrently.
C21_UniqueOrFieldDuplicate ==
  /\ \A d, e \in UserDocs :
       (d.username = e.username \/ d.email = e.email) => d.id = e.id
  /\ \A p \in Procs :
       ( /\ RegisterDone(p)
         /\ RegisterValidation(req[p]) = ""
         /\ req[p].role \in {Undefined, "user", "agent", "admin"} )
       => \/ resp[p].status = 201
          \/ /\ resp[p].status = 400
             /\ resp[p].code = "FIELD_DUPLICATE"
             /\ \/ resp[p].field = "email"
                   /\ \E d \in UserDocs : d.email = req[p].email
                \/ resp[p].field = "username"
                   /\ \E d \in UserDocs : d.username = req[p].username

\* ------------------------------------- properties of the middleware chain
GateStep(p) == Begins(p, "create") \/ Begins(p, "get") \/ Begins(p, "login")

\* The ids of the stored identities.
Identities == users \cup { registered[i].id : i \in DOMAIN registered }

\* C22: no request deletes an identity: every identity stored before a step is
\* stored after it, so the user lookup of a token never starts to fail.
C22_IdentitiesOnlyGrow ==
  [][Identities \subseteq Identities']_vars

\* C11: every request to an /api route counts toward a rate-window quota,
\* whatever its outcome: some counter of the limiter advances with it, also
\* when the request is answered 401 for a missing or invalid token.
C11_EveryRequestCounts ==
  [][\A p \in Procs : GateStep(p) => hits' # hits]_vars

\* The header carries a signed, unexpired token of a stored identity.
TokenAccepted(h) ==
  /\ h.token # {}
  /\ ValueOf(h.token).signed
  /\ now < ValueOf(h.token).exp
  /\ ValueOf(h.token).userId \in users

\* C12: a request is counted under the id of its authenticated user, and under
\* its source address only when it is a login (or register) call; it is
\* refused exactly when 60 requests of that key's window came before it, and
\* it leaves the counters of all other keys as they were.
C12_CountersIndependent ==
  [][\A p \in Procs :
       GateStep(p) =>
         LET r == req'[p]
             k == IF r.op = "login" THEN r.ip ELSE ValueOf(r.auth.token).userId
         IN IF r.op # "login" /\ ~TokenAccepted(r.auth)
            THEN hits' = hits
            ELSE /\ k \in (IF r.op = "login" THEN Addrs ELSE Users)
                 /\ \A j \in DOMAIN hits \ {k} : hits'[j] = hits[j]
                 /\ hits'[k].totalHits = CountedInWindow(k) + 1
                 /\ resp'[p].status = 429 <=> CountedInWindow(k) >= 60 ]_vars

\* jane_agent is admitted from the address john_user has used up his window
\* from, after a login from that address was counted too.
C12_Witness ==
  /\ hits["john_user"].totalHits > 60
  /\ hits["10.0.0.1"].totalHits >= 1
  /\ hits["jane_agent"].totalHits = 1
  /\ req["c2"].op = "get"
  /\ TokenAccepted(req["c2"].auth)
  /\ ValueOf(req["c2"].auth.token).userId = "jane_agent"
  /\ resp["c2"].status = 404

\* C20: a ticket request whose Authorization header is not "Bearer" followed
\* by a valid token of a stored identity is answered 401 and changes no store;
\* the code is TOKEN_REQUIRED when the header is missing or malformed and
\* INVALID_TOKEN when its token is invalid, expired or of a deleted identity.
C20_NoHandlerWithoutBearerToken ==
  [][\A p \in Procs :
       ( /\ Begins(p, "create") \/ Begins(p, "get")
         /\ ~(req'[p].auth.scheme = "Bearer" /\ TokenAccepted(req'[p].auth)) )
       => ( /\ resp'[p].status = 401
            /\ resp'[p].code =
                 IF req'[p].auth.scheme # "Bearer" \/ req'[p].auth.token = {}
                 THEN "TOKEN_REQUIRED" ELSE "INVALID_TOKEN"
            /\ tickets' = tickets
            /\ idem' = idem
            /\ comments' = comments ) ]_vars

====
